---- MODULE Spec2Model ----
(***************************************************************************)
(* JobHub: the Careerjet search client (lib/careerjet), its response cache *)
(* and in-memory job cache, the slug codec (lib/utils) and the slug        *)
(* resolver used by the job detail page.                                   *)
(*                                                                         *)
(* Strings that the code takes apart (titles, slugs, keywords, digests)    *)
(* are sequences of one-character strings; strings the code only passes    *)
(* on (URLs, header values, messages) are TLA+ strings.                    *)
(***************************************************************************)
EXTENDS Integers, Sequences, FiniteSets, Bags, TLC

VARIABLES now, apiKey, jobCache, respCache, reqs, stores, ret, codec

vars == <<now, apiKey, jobCache, respCache, reqs, stores, ret, codec>>

(***************************************************************************)
(* lib/utils: the slug codec                                               *)
(***************************************************************************)

\* The characters titles are drawn from: a lower-case letter, an upper-case
\* letter, a digit, a space, a hyphen, an underscore, a punctuation mark and
\* a precomposed accented letter (e with acute, U+00E9).
TitleChars == {"a", "B", "1", " ", "-", "_", "!", "e_acute"}

HexDigits == {"0","1","2","3","4","5","6","7","8","9","a","b","c","d","e","f"}

\* String.prototype.toLowerCase, per character
toLowerCase(c) ==
  CASE c = "B" -> "b"
    [] c = "J" -> "j"
    [] c = "O" -> "o"
    [] OTHER   -> c

\* String.prototype.normalize("NFKD"), per character: a precomposed letter
\* decomposes into its base letter followed by the combining mark.
normalizeNFKD(c) == IF c = "e_acute" THEN <<"e", "combining_acute">> ELSE <<c>>

\* \w of a JavaScript regular expression without the u flag: [A-Za-z0-9_]
AsciiLetters == {"a", "b", "c", "d", "e", "f", "g", "i", "j", "n", "o", "p",
                 "B", "J", "O"}

AsciiDigits == {"0", "1", "2", "3", "4", "5", "6", "7", "8", "9"}

IsWordChar(c) == c \in AsciiLetters \cup AsciiDigits \cup {"_"}

\* \s of a JavaScript regular expression
IsSpaceChar(c) == c = " "

RECURSIVE FlatMap(_, _)
FlatMap(F(_), s) == IF s = <<>> THEN <<>> ELSE F(Head(s)) \o FlatMap(F, Tail(s))

MapSeq(F(_), s) == [i \in 1..Len(s) |-> F(s[i])]

\* .replace(/[^\w\s-]/g, "")
StripNonWord(s) == SelectSeq(s, LAMBDA c : IsWordChar(c) \/ IsSpaceChar(c) \/ c = "-")

RECURSIVE DropLeading(_, _)
DropLeading(P(_), s) ==
  IF s # <<>> /\ P(Head(s)) THEN DropLeading(P, Tail(s)) ELSE s

RECURSIVE DropTrailing(_, _)
DropTrailing(P(_), s) ==
  IF s # <<>> /\ P(s[Len(s)]) THEN DropTrailing(P, SubSeq(s, 1, Len(s) - 1)) ELSE s

\* String.prototype.trim
trim(s) == DropTrailing(IsSpaceChar, DropLeading(IsSpaceChar, s))

\* .replace(re, to) for a regular expression /[class]+/g: every maximal run
\* of characters of the class becomes the one replacement `to`.
RECURSIVE ReplaceRuns(_, _, _)
ReplaceRuns(P(_), to, s) ==
  IF s = <<>> THEN <<>>
  ELSE IF P(Head(s)) THEN to \o ReplaceRuns(P, to, DropLeading(P, s))
       ELSE <<Head(s)>> \o ReplaceRuns(P, to, Tail(s))

IsSeparator(c) == IsSpaceChar(c) \/ c = "_" \/ c = "-"

IsHyphen(c) == c = "-"

\* slugify
slugify(input) ==
  LET lowered    == MapSeq(toLowerCase, input)
      normalized == FlatMap(normalizeNFKD, lowered)
      stripped   == StripNonWord(normalized)
      trimmed    == trim(stripped)
      hyphenated == ReplaceRuns(IsSeparator, <<"-">>, trimmed)
  IN  DropTrailing(IsHyphen, DropLeading(IsHyphen, hyphenated))

\* crypto.createHash("sha256").update(url).digest("hex"), tabulated for the
\* URLs of the model (computed with SHA-256, not invented).
Sha256Hex(url) ==
  CASE url = "" ->
       <<"e","3","b","0","c","4","4","2","9","8","f","c","1","c","1","4","9","a","f","b","f","4","c","8","9","9","6","f","b","9","2","4">>
       \o <<"2","7","a","e","4","1","e","4","6","4","9","b","9","3","4","c","a","4","9","5","9","9","1","b","7","8","5","2","b","8","5","5">>
    [] url = "https://example.com/jobs/123" ->
       <<"8","9","7","c","1","8","1","a","9","6","4","b","2","b","a","d","7","0","d","7","0","3","6","0","2","c","d","5","c","f","7","0">>
       \o <<"c","c","b","a","a","5","a","b","0","6","6","d","e","d","4","5","0","f","2","2","0","3","f","9","8","1","c","3","e","0","2","1">>
    [] url = "https://example.com/jobs/456" ->
       <<"c","6","8","9","1","7","e","e","0","1","2","2","7","9","a","d","0","7","f","9","1","f","9","9","9","6","f","c","f","d","b","5">>
       \o <<"5","a","1","1","9","5","4","e","b","e","5","9","4","8","a","5","7","2","f","d","3","a","2","a","e","c","0","1","6","b","a","5">>

JobOpeningToken == <<"j","o","b","-","o","p","e","n","i","n","g">>

\* .slice(0, n) of a string
sliceTo(s, n) == SubSeq(s, 1, IF n < Len(s) THEN n ELSE Len(s))

HashLen == 10

\* makeJobSlug with the two parts in the other order
makeJobSlugHashFirst(title, url) ==
  LET base == IF slugify(title) # <<>> THEN slugify(title) ELSE JobOpeningToken
      hash == sliceTo(Sha256Hex(url), HashLen)
  IN  hash \o <<"-">> \o base

\* makeJobSlug
makeJobSlug(title, url) ==
  LET base == IF slugify(title) # <<>> THEN slugify(title) ELSE JobOpeningToken
      hash == sliceTo(Sha256Hex(url), HashLen)
  IN  base \o <<"-">> \o hash

\* String.prototype.split(sep) for a one-character separator
RECURSIVE split(_, _)
split(s, sep) ==
  IF \A i \in 1..Len(s) : s[i] # sep THEN <<s>>
  ELSE LET i == CHOOSE k \in 1..Len(s) :
                  s[k] = sep /\ \A m \in 1..(k - 1) : s[m] # sep
       IN  <<SubSeq(s, 1, i - 1)>> \o split(SubSeq(s, i + 1, Len(s)), sep)

\* Array.prototype.join(sep)
RECURSIVE join(_, _)
join(parts, sep) ==
  IF parts = <<>> THEN <<>>
  ELSE IF Len(parts) = 1 THEN parts[1]
       ELSE parts[1] \o sep \o join(Tail(parts), sep)

\* extractHashFromSlug returning the first segment instead of the last
extractHashFirstSegment(slug) ==
  LET parts == split(slug, "-")
  IN  IF Len(parts) = 0 THEN <<>> ELSE parts[1]

\* extractHashFromSlug
extractHashFromSlug(slug) ==
  LET parts == split(slug, "-")
  IN  IF Len(parts) = 0 THEN <<>> ELSE parts[Len(parts)]

(***************************************************************************)
(* lib/careerjet: constants and pure helpers                               *)
(***************************************************************************)

DEFAULT_LOCALE == "en_US"

DEFAULT_PAGE_SIZE == 20

CACHE_TTL_SECONDS == 600

JOB_CACHE_TTL_MS == 1000 * 60 * 15

\* The value of an absent result (JavaScript's undefined)
Undefined == [undefined |-> TRUE]

\* obj.field is present (an optional property that was set)
Has(obj, field) == field \in DOMAIN obj

\* obj.field ?? dflt
OrElse(obj, field, dflt) == IF Has(obj, field) THEN obj[field] ELSE dflt

\* A string held as a sequence of string parts is empty when every part is.
IsEmptyText(parts) == \A i \in 1..Len(parts) : parts[i] = ""

\* emptyResponse
emptyResponse(message) ==
  [type |-> "ERROR", message |-> message, hits |-> 0, pages |-> 1, jobs |-> <<>>]

\* The outcome of a call: a returned value or a thrown error
Returned(v) == [threw |-> FALSE, value |-> v]

Thrown(e) == [threw |-> TRUE, error |-> e]

NewError(message) == [name |-> "Error", message |-> message]

MissingApiKeyMessage ==
  <<"Missing CAREERJET_API_KEY environment variable. Please set it in your environment.">>

\* ensureApiKey that hands back the missing key instead of throwing
ensureApiKeyNoThrow(key) == Returned("key")

\* ensureApiKey: key is whether process.env.CAREERJET_API_KEY is set
ensureApiKey(key) ==
  IF ~key THEN Thrown(NewError(MissingApiKeyMessage)) ELSE Returned("key")

\* buildAuthHeader
buildAuthHeader(key) ==
  LET apiKeyResult == ensureApiKey(key)
  IN  IF apiKeyResult.threw THEN apiKeyResult
      ELSE Returned(<<"Basic ", "base64", apiKeyResult.value, ":">>)

\* process.env.CAREERJET_FALLBACK_IP and CAREERJET_FALLBACK_UA: optional,
\* left unset here ("" is what an unset variable counts as under ||)
CAREERJET_FALLBACK_IP == ""

CAREERJET_FALLBACK_UA == ""

\* a || b for strings
OrString(a, b) == IF a # "" THEN a ELSE b

\* String.prototype.trim for the header segments of the model
trimSegment(s) == IF s = " 10.0.0.2" THEN "10.0.0.2" ELSE s

\* getRequestMetadata.  hdr.available is whether headers() resolved (it
\* rejects outside a request, e.g. at build time); hdr.forwardedFor is the
\* x-forwarded-for value already split on ","; hdr.userAgent the user-agent.
getRequestMetadata(hdr) ==
  IF hdr.available
  THEN LET forwardedFor == OrElse(hdr, "forwardedFor", <<"">>)
           first        == trimSegment(forwardedFor[1])
       IN  [ip        |-> OrString(first, OrString(CAREERJET_FALLBACK_IP, "8.8.8.8")),
            userAgent |-> OrString(OrElse(hdr, "userAgent", ""),
                                   OrString(CAREERJET_FALLBACK_UA, "JobHubBot/1.0"))]
  ELSE [ip        |-> OrString(CAREERJET_FALLBACK_IP, "8.8.8.8"),
        userAgent |-> OrString(CAREERJET_FALLBACK_UA, "JobHubBot/1.0")]

\* if (criteria[field]) params.set(name, criteria[field]): a parameter is
\* set only for a present, truthy value.
OptionalParam(criteria, field, name, falsy) ==
  IF Has(criteria, field) /\ criteria[field] # falsy
  THEN <<<<name, criteria[field]>>>> ELSE <<>>

\* buildQueryString: the parameters in the order URLSearchParams keeps them
\* (the order of first set); toString() encodes them injectively.
buildQueryString(criteria, requestMeta) ==
     <<<<"locale_code", DEFAULT_LOCALE>>,
       <<"page_size", OrElse(criteria, "pageSize", DEFAULT_PAGE_SIZE)>>,
       <<"page", OrElse(criteria, "page", 1)>>,
       <<"user_ip", requestMeta.ip>>,
       <<"user_agent", requestMeta.userAgent>>>>
  \o OptionalParam(criteria, "radius", "radius", 0)
  \o OptionalParam(criteria, "keywords", "keywords", <<>>)
  \o OptionalParam(criteria, "location", "location", "")
  \o OptionalParam(criteria, "contractType", "contract_type", "")
  \o OptionalParam(criteria, "workHours", "work_hours", "")

(***************************************************************************)
(* The job cache: a JavaScript Map, kept as the sequence of its entries    *)
(* [hash, job, expiresAt] in insertion order, one entry per key.           *)
(***************************************************************************)

MapHas(m, k) == \E i \in 1..Len(m) : m[i].hash = k

MapKeys(m) == {m[i].hash : i \in 1..Len(m)}

\* Map.prototype.get: the entry, or Undefined
MapGet(m, k) ==
  IF MapHas(m, k) THEN m[CHOOSE i \in 1..Len(m) : m[i].hash = k] ELSE Undefined

\* Map.prototype.set: an existing key keeps its place, a new one goes last
MapSet(m, k, job, expiresAt) ==
  LET entry == [hash |-> k, job |-> job, expiresAt |-> expiresAt]
  IN  IF MapHas(m, k)
      THEN [i \in 1..Len(m) |-> IF m[i].hash = k THEN entry ELSE m[i]]
      ELSE Append(m, entry)

\* Map.prototype.delete
MapDelete(m, k) == SelectSeq(m, LAMBDA e : e.hash # k)

\* rememberJobs that never overwrites an entry
RECURSIVE rememberJobsKeepFirst(_, _, _)
rememberJobsKeepFirst(cache, jobs, t) ==
  IF jobs = <<>> THEN cache
  ELSE LET job       == Head(jobs)
           expiresAt == t + JOB_CACHE_TTL_MS
           hash      == extractHashFromSlug(job.slug)
       IN  rememberJobsKeepFirst(IF MapHas(cache, hash) THEN cache
                                 ELSE MapSet(cache, hash, job, expiresAt),
                                 Tail(jobs), t)

\* rememberJobs that keys the entries by the whole slug
RECURSIVE rememberJobsBySlug(_, _, _)
rememberJobsBySlug(cache, jobs, t) ==
  IF jobs = <<>> THEN cache
  ELSE rememberJobsBySlug(MapSet(cache, Head(jobs).slug, Head(jobs),
                                 t + JOB_CACHE_TTL_MS), Tail(jobs), t)

\* rememberJobs that stops after the first job of the batch
rememberJobsFirstOnly(cache, jobs, t) ==
  IF jobs = <<>> THEN cache
  ELSE MapSet(cache, extractHashFromSlug(Head(jobs).slug), Head(jobs),
              t + JOB_CACHE_TTL_MS)

\* rememberJobs at time t (Date.now() is read once, before the loop)
RECURSIVE rememberJobs(_, _, _)
rememberJobs(cache, jobs, t) ==
  IF jobs = <<>> THEN cache
  ELSE LET job       == Head(jobs)
           expiresAt == t + JOB_CACHE_TTL_MS
           hash      == extractHashFromSlug(job.slug)
       IN  rememberJobs(MapSet(cache, hash, job, expiresAt), Tail(jobs), t)

JobOpeningTitle == <<"J","o","b"," ","O","p","e","n","i","n","g">>

\* normalizeJob that leaves a missing title empty
normalizeJobUntitled(raw) ==
  LET slug == makeJobSlug(OrElse(raw, "title", <<>>), OrElse(raw, "url", ""))
  IN  [title       |-> OrElse(raw, "title", <<>>),
       company     |-> OrElse(raw, "company", ""),
       date        |-> OrElse(raw, "date", ""),
       description |-> OrElse(raw, "description", ""),
       locations   |-> OrElse(raw, "locations", ""),
       site        |-> OrElse(raw, "site", ""),
       url         |-> OrElse(raw, "url", ""),
       apply_url   |-> OrElse(raw, "url", ""),
       slug        |-> slug]

\* normalizeJob (the salary fields are copied through unchanged and are
\* left out of the records of the model)
normalizeJob(raw) ==
  LET slug == makeJobSlug(OrElse(raw, "title", JobOpeningTitle), OrElse(raw, "url", ""))
  IN  [title       |-> OrElse(raw, "title", JobOpeningTitle),
       company     |-> OrElse(raw, "company", ""),
       date        |-> OrElse(raw, "date", ""),
       description |-> OrElse(raw, "description", ""),
       locations   |-> OrElse(raw, "locations", ""),
       site        |-> OrElse(raw, "site", ""),
       url         |-> OrElse(raw, "url", ""),
       apply_url   |-> OrElse(raw, "url", ""),
       slug        |-> slug]

\* getJobFromCache that never looks at the expiration
getJobFromCacheNoExpiry(cache, hash, t) ==
  LET cached == MapGet(cache, hash)
  IN  IF cached = Undefined THEN [cache |-> cache, value |-> Undefined]
      ELSE [cache |-> cache, value |-> cached.job]

\* getJobFromCache that drops the entry it returns
getJobFromCacheTakes(cache, hash, t) ==
  LET cached == MapGet(cache, hash)
  IN  IF cached = Undefined THEN [cache |-> cache, value |-> Undefined]
      ELSE IF cached.expiresAt < t
           THEN [cache |-> MapDelete(cache, hash), value |-> Undefined]
           ELSE [cache |-> MapDelete(cache, hash), value |-> cached.job]

\* getJobFromCache that returns the oldest entry, whatever its key
getJobFromCacheOldest(cache, hash, t) ==
  IF cache = <<>> THEN [cache |-> cache, value |-> Undefined]
  ELSE [cache |-> cache, value |-> cache[1].job]

\* getJobFromCache that renews the entry it returns
getJobFromCacheRenews(cache, hash, t) ==
  LET cached == MapGet(cache, hash)
  IN  IF cached = Undefined THEN [cache |-> cache, value |-> Undefined]
      ELSE IF cached.expiresAt < t
           THEN [cache |-> MapDelete(cache, hash), value |-> Undefined]
           ELSE [cache |-> MapSet(cache, hash, cached.job, t + JOB_CACHE_TTL_MS),
                 value |-> cached.job]

\* getJobFromCache at time t: the cache afterwards and the value returned
getJobFromCache(cache, hash, t) ==
  LET cached == MapGet(cache, hash)
  IN  IF cached = Undefined THEN [cache |-> cache, value |-> Undefined]
      ELSE IF cached.expiresAt < t
           THEN [cache |-> MapDelete(cache, hash), value |-> Undefined]
           ELSE [cache |-> cache, value |-> cached.job]

\* getCachedJobsSnapshot that takes an entry expiring now for expired
getCachedJobsSnapshotStrict(cache, t) ==
  [cache |-> SelectSeq(cache, LAMBDA e : e.expiresAt > t),
   value |-> LET kept == SelectSeq(cache, LAMBDA e : e.expiresAt > t)
             IN  [i \in 1..Len(kept) |-> kept[i].job]]

\* getCachedJobsSnapshot at time t.  Deleting the entry under the cursor
\* while iterating a Map is well defined: the remaining entries are still
\* visited, in insertion order.
getCachedJobsSnapshot(cache, t) ==
  [cache |-> SelectSeq(cache, LAMBDA e : e.expiresAt >= t),
   value |-> LET kept == SelectSeq(cache, LAMBDA e : e.expiresAt >= t)
             IN  [i \in 1..Len(kept) |-> kept[i].job]]

(***************************************************************************)
(* lib/careerjet: the fetch, the response cache and the search             *)
(***************************************************************************)

\* `Careerjet API error (${response.status}): ${message || response.statusText}`
ApiErrorMessage(status, message, statusText) ==
  <<"Careerjet API error (", status, "): ", OrString(message, statusText)>>

\* The callback that returns an error response for a failed fetch, instead
\* of throwing
fetchSettledReturnsFailure(outcome, cache, t) ==
  IF outcome.kind \in {"network", "badjson"} \/ ~outcome.ok
  THEN [result |-> Returned(emptyResponse(<<"failed">>)), cache |-> cache,
        remembered |-> <<>>]
  ELSE LET data == outcome.data
       IN  IF Has(data, "jobs")
           THEN LET jobs == MapSeq(normalizeJob, data.jobs)
                IN  [result     |-> Returned([data EXCEPT !.jobs = jobs]),
                     cache      |-> rememberJobs(cache, jobs, t),
                     remembered |-> jobs]
           ELSE [result |-> Returned(data), cache |-> cache, remembered |-> <<>>]

\* The body of the cachedSearch callback once fetch has settled with
\* `outcome`, at time t: what it returns or throws, the job cache
\* afterwards and the batch it passed to rememberJobs.
fetchSettled(outcome, cache, t) ==
  IF outcome.kind = "network"
  THEN [result |-> Thrown(outcome.error), cache |-> cache, remembered |-> <<>>]
  ELSE IF ~outcome.ok
  THEN [result |-> Thrown(NewError(ApiErrorMessage(outcome.status, outcome.body,
                                                   outcome.statusText))),
        cache |-> cache, remembered |-> <<>>]
  ELSE IF outcome.kind = "badjson"
  THEN [result |-> Thrown(outcome.error), cache |-> cache, remembered |-> <<>>]
  ELSE LET data == outcome.data
       IN  IF Has(data, "jobs")
           THEN LET jobs == MapSeq(normalizeJob, data.jobs)
                IN  [result     |-> Returned([data EXCEPT !.jobs = jobs]),
                     cache      |-> rememberJobs(cache, jobs, t),
                     remembered |-> jobs]
           ELSE [result |-> Returned(data), cache |-> cache, remembered |-> <<>>]

\* error instanceof Error
IsErrorInstance(e) == Has(e, "name") /\ Has(e, "message")

\* The try/catch of searchJobs letting the error through
searchJobsRethrows(result) == result

\* The try/catch of searchJobs around cachedSearch: what searchJobs returns
\* (or would throw) given what cachedSearch returned or threw.
searchJobsCatch(result) ==
  IF result.threw
  THEN Returned(emptyResponse(IF IsErrorInstance(result.error)
                              THEN result.error.message
                              ELSE <<"Careerjet API unavailable">>))
  ELSE result

\* The response cache (unstable_cache, revalidate: CACHE_TTL_SECONDS): a
\* function from query string to the entry [data, at] stored for it.
RespHas(c, k) == k \in DOMAIN c

RespGet(c, k) == c[k]

RespSet(c, k, data, t) ==
  [q \in DOMAIN c \cup {k} |-> IF q = k THEN [data |-> data, at |-> t] ELSE c[q]]

\* A response cache that takes the window's seconds for milliseconds
cacheServesMsForSeconds(c, k, t, atEdge) ==
  /\ RespHas(c, k)
  /\ t - RespGet(c, k).at < CACHE_TTL_SECONDS

\* A response cache that goes on serving an entry after its window
cacheServesStale(c, k, t, atEdge) == RespHas(c, k)

\* Whether the response cache serves key k at time t.  An entry is served
\* while it is younger than the window; at exactly the window's length the
\* caching facility decides (atEdge).
cacheServes(c, k, t, atEdge) ==
  /\ RespHas(c, k)
  /\ LET age == t - RespGet(c, k).at
     IN  \/ age < CACHE_TTL_SECONDS * 1000
         \/ age = CACHE_TTL_SECONDS * 1000 /\ atEdge

\* findJobBySlug's scan taking the first job of the page
findMatchFirst(response, hash) ==
  IF Has(response, "jobs") /\ response.jobs # <<>> THEN response.jobs[1] ELSE Undefined

\* response.jobs?.find((item) => extractHashFromSlug(item.slug) === hash)
findMatch(response, hash) ==
  IF Has(response, "jobs")
       /\ \E i \in 1..Len(response.jobs) : extractHashFromSlug(response.jobs[i].slug) = hash
  THEN response.jobs[CHOOSE i \in 1..Len(response.jobs) :
         /\ extractHashFromSlug(response.jobs[i].slug) = hash
         /\ \A k \in 1..(i - 1) : extractHashFromSlug(response.jobs[k].slug) # hash]
  ELSE Undefined

\* slug.split("-").slice(0, -1).join(" ").replace(/\s+/g, " ")
keywordsFromSlug(slug) ==
  LET parts == split(slug, "-")
  IN  ReplaceRuns(IsSpaceChar, <<" ">>, join(SubSeq(parts, 1, Len(parts) - 1), <<" ">>))

\* findJobBySlug's criteria always rebuilt from the slug
searchCriteriaForSlugAlways(slug, fallbackCriteria) ==
  [f \in DOMAIN fallbackCriteria \cup {"keywords"} |->
     IF f = "keywords" THEN keywordsFromSlug(slug) ELSE fallbackCriteria[f]]

\* findJobBySlug: const criteria = { ...fallbackCriteria };
\* if (!criteria.keywords) criteria.keywords = <keywords from the slug>
searchCriteriaForSlug(slug, fallbackCriteria) ==
  IF Has(fallbackCriteria, "keywords") /\ fallbackCriteria.keywords # <<>>
  THEN fallbackCriteria
  ELSE [f \in DOMAIN fallbackCriteria \cup {"keywords"} |->
          IF f = "keywords" THEN keywordsFromSlug(slug) ELSE fallbackCriteria[f]]

\* app/jobs/[slug]/page: buildFallbackCriteria(searchParams)
buildFallbackCriteria(searchParams) ==
  LET keep == {f \in {"keywords"} \cap DOMAIN searchParams : searchParams[f] # <<>>}
              \cup {f \in {"location"} \cap DOMAIN searchParams : searchParams[f] # ""}
  IN  [f \in keep |-> searchParams[f]]

(***************************************************************************)
(* Bounds and inputs                                                       *)
(***************************************************************************)

\* The clock is read every TickMs, up to MaxTicks times TickMs.
MaxTicks == 4

TickMs == 1000 * 60 * 5

Instants == {k * TickMs : k \in 0..MaxTicks}

\* Responses stored in the response cache in a run
MaxStores == 1

\* Calls that may be waiting for their fetch at the same time
MaxInFlight == 1

\* Concurrent requests whose fetches write the job cache (CacheSpec)
MaxWriters == 2

\* Responses those requests store in a run (CacheSpec)
MaxWrites == 2

\* The longest title the slug codec is run on
MaxTitleLen == 2

RECURSIVE SeqsUpTo(_, _)
SeqsUpTo(S, n) ==
  IF n = 0 THEN {<<>>}
  ELSE LET shorter == SeqsUpTo(S, n - 1)
       IN  shorter \cup {Append(s, c) : s \in shorter, c \in S}

Titles == SeqsUpTo(TitleChars, MaxTitleLen)

Urls == {"", "https://example.com/jobs/123", "https://example.com/jobs/456"}

\* Raw records of the remote API
RawA == [title |-> <<"a">>, url |-> "https://example.com/jobs/123", company |-> "Acme"]

RawB == [title |-> <<"B", " ", "a">>, url |-> "https://example.com/jobs/123"]

RawNoTitleNoUrl == [company |-> "Initech"]

\* What the remote API may answer
Payloads ==
  { [type |-> "JOBS", hits |-> 3, pages |-> 1, jobs |-> <<RawA, RawB, RawNoTitleNoUrl>>],
    [type |-> "LOCATIONS", locations |-> <<"Austin, TX", "Austin, MN">>] }

\* How a fetch may settle: rejected, answered with a non-2xx status,
\* answered with a body that is not JSON, or answered with a payload
FetchOutcomes ==
  { [kind |-> "network", error |-> [name |-> "TypeError", message |-> <<"fetch failed">>]],
    [kind |-> "http", ok |-> FALSE, status |-> "500",
     statusText |-> "Internal Server Error", body |-> ""],
    [kind |-> "badjson", ok |-> TRUE,
     error |-> [name |-> "SyntaxError", message |-> <<"Unexpected token < in JSON">>]] }
  \cup {[kind |-> "http", ok |-> TRUE, data |-> p] : p \in Payloads}

\* A second page of results: another job, and RawA again
RawC == [title |-> <<"a">>, url |-> "https://example.com/jobs/456"]

\* How the fetches of concurrent writers settle: rejected, or answered
\* with one of two pages of jobs that share a URL
WriterOutcomes ==
  { [kind |-> "network", error |-> [name |-> "TypeError", message |-> <<"fetch failed">>]],
    [kind |-> "http", ok |-> TRUE,
     data |-> [type |-> "JOBS", hits |-> 3, pages |-> 1,
               jobs |-> <<RawA, RawB, RawNoTitleNoUrl>>]],
    [kind |-> "http", ok |-> TRUE,
     data |-> [type |-> "JOBS", hits |-> 2, pages |-> 1, jobs |-> <<RawC, RawA>>]] }

NoCriteria == [f \in {} |-> 0]

\* Criteria the listing page searches with
SearchCriteria == { [keywords |-> <<"a">>, page |-> 1, pageSize |-> 20] }

\* The headers of a browser's request
BrowserHeaders ==
  [available |-> TRUE, forwardedFor |-> <<" 10.0.0.2", "10.0.0.9">>,
   userAgent |-> "Mozilla/5.0"]

\* Inbound request headers of a search: none (a render outside a request,
\* at build time) or a browser's
HeaderInputs == { [available |-> FALSE], BrowserHeaders }

\* Inbound request headers of the detail page
DetailHeaderInputs == { BrowserHeaders }

\* Slugs asked of the detail page: the slug of RawA, and a slug (with an
\* empty segment) whose hash suffix no job has
SlugInputs ==
  { makeJobSlug(RawA.title, RawA.url),
    <<"b", "-", "-", "a", "-", "a", "b", "c", "1", "2", "3", "d", "e", "f", "0">> }

\* The detail page's searchParams
SearchParamInputs ==
  { NoCriteria,
    [keywords |-> <<"a">>],
    [keywords |-> <<>>, location |-> ""] }

HashInputs == {extractHashFromSlug(s) : s \in SlugInputs}
                \cup {sliceTo(Sha256Hex(""), HashLen)}

\* The hash suffixes of the jobs the writers remember
WriterHashes == {sliceTo(Sha256Hex(u), HashLen) : u \in Urls}

(***************************************************************************)
(* State                                                                   *)
(*   now          Date.now()                                               *)
(*   apiKey       whether process.env.CAREERJET_API_KEY is set             *)
(*   jobCache     the jobCache Map                                         *)
(*   respCache    the entries of the response cache                        *)
(*   reqs         the calls waiting for their fetch to settle (a bag)       *)
(*   stores       the number of responses stored so far                    *)
(*   ret          the call completing in this step, with what it returns   *)
(*   codec        the slug codec's inputs and outputs (SlugSpec)           *)
(***************************************************************************)

NoCall == [op |-> "none"]

NoCodec == [phase |-> "off"]

Init ==
  /\ now = 0
  /\ apiKey \in BOOLEAN
  /\ jobCache = <<>>
  /\ respCache = <<>>
  /\ reqs = EmptyBag
  /\ stores = 0
  /\ ret = NoCall
  /\ codec = NoCodec

\* The clock moves on
Tick ==
  /\ ret = NoCall
  /\ now + TickMs \in Instants
  /\ now' = now + TickMs
  /\ UNCHANGED <<apiKey, jobCache, respCache, reqs, stores, ret, codec>>

\* The result of the completed call is handed to its caller
ReturnToCaller ==
  /\ ret # NoCall
  /\ ret' = NoCall
  /\ UNCHANGED <<now, apiKey, jobCache, respCache, reqs, stores, codec>>

\* What a completed searchJobs call leaves in ret
SearchReturn(criteria, queryString, result, outcome, remembered) ==
  LET out == searchJobsCatch(result)
  IN  [op          |-> "searchJobs",
       criteria    |-> criteria,
       queryString |-> queryString,
       threw       |-> out.threw,
       value       |-> IF out.threw THEN Undefined ELSE out.value,
       error       |-> IF result.threw THEN result.error ELSE Undefined,
       fetched     |-> outcome # Undefined,
       outcome     |-> outcome,
       remembered  |-> remembered,
       at          |-> IF remembered # <<>> THEN now ELSE 0]

\* What a completed findJobBySlug call that searched leaves in ret
FindReturn(call, result, outcome, remembered) ==
  LET out == searchJobsCatch(result)
  IN  [op          |-> "findJobBySlug",
       slug        |-> call.slug,
       hit         |-> FALSE,
       searches    |-> 1,
       criteria    |-> call.criteria,
       queryString |-> call.queryString,
       threw       |-> out.threw,
       response    |-> IF out.threw THEN Undefined ELSE out.value,
       value       |-> IF out.threw THEN Undefined
                       ELSE findMatch(out.value, extractHashFromSlug(call.slug)),
       error       |-> IF result.threw THEN result.error ELSE Undefined,
       fetched     |-> outcome # Undefined,
       outcome     |-> outcome,
       remembered  |-> remembered,
       at          |-> IF remembered # <<>> THEN now ELSE 0]

(***************************************************************************)
(* The pages: what the listing page, the sitemap and the job detail page   *)
(* make of what the search client returns                                  *)
(***************************************************************************)

\* The results column of the listing page that shows the empty-results
\* state whenever there are no jobs
HomeResultsEmptyWithoutJobs(response) ==
  LET jobs == OrElse(response, "jobs", <<>>)
  IN  [locationsPrompt |-> response.type = "LOCATIONS",
       promptLocations |-> IF response.type = "LOCATIONS"
                           THEN OrElse(response, "locations", <<>>) ELSE <<>>,
       emptyState      |-> Len(jobs) = 0,
       cards           |-> [i \in 1..Len(jobs) |-> jobs[i].slug]]

\* The results column of the listing page for a search response: the
\* location prompt with the locations it lists, the empty-results state,
\* and one card per job
HomeResults(response) ==
  LET jobs == OrElse(response, "jobs", <<>>)
  IN  [locationsPrompt |-> response.type = "LOCATIONS",
       promptLocations |-> IF response.type = "LOCATIONS"
                           THEN OrElse(response, "locations", <<>>) ELSE <<>>,
       emptyState      |-> Len(jobs) = 0 /\ response.type # "LOCATIONS",
       cards           |-> [i \in 1..Len(jobs) |-> jobs[i].slug]]

\* process.env.NEXT_PUBLIC_SITE_URL ?? "https://jobhub.example.com"
SiteOrigin == "https://jobhub.example.com"

\* new Date(job.date) is an invalid date
IsInvalidDate(date) == date = ""

\* The sitemap without its job entries
sitemapHomeOnly(jobs, t) ==
  <<[url |-> <<SiteOrigin, "/">>, lastModified |-> t,
     changeFrequency |-> "hourly", priority |-> "1"]>>

\* The sitemap for the jobs, generated at time t: the home page, then one
\* entry per job
sitemapOf(jobs, t) ==
  <<[url |-> <<SiteOrigin, "/">>, lastModified |-> t,
     changeFrequency |-> "hourly", priority |-> "1"]>>
  \o [i \in 1..Len(jobs) |->
        [url |-> <<SiteOrigin, "/jobs/">> \o jobs[i].slug,
         lastModified |-> IF IsInvalidDate(jobs[i].date) THEN t ELSE jobs[i].date,
         changeFrequency |-> "daily", priority |-> "0.6"]]

\* The sitemap that searches whatever the snapshot holds
snapshotNeverEnough(jobs) == TRUE

\* jobs.length === 0 in sitemap()
snapshotIsEmpty(jobs) == Len(jobs) = 0

\* What a completed render of the listing page leaves in ret
HomeReturn(call, result, outcome, remembered) ==
  LET out == searchJobsCatch(result)
  IN  [op          |-> "Home",
       criteria    |-> call.criteria,
       queryString |-> call.queryString,
       threw       |-> out.threw,
       response    |-> IF out.threw THEN Undefined ELSE out.value,
       output      |-> IF out.threw THEN Undefined ELSE HomeResults(out.value),
       lookups     |-> 0,
       searches    |-> 1,
       fetched     |-> outcome # Undefined]

\* What a completed sitemap() that searched leaves in ret
SitemapReturn(call, result, outcome, remembered) ==
  LET out  == searchJobsCatch(result)
      jobs == IF out.threw THEN <<>> ELSE OrElse(out.value, "jobs", <<>>)
  IN  [op          |-> "sitemap",
       snapshot    |-> call.snapshot,
       response    |-> IF out.threw THEN Undefined ELSE out.value,
       jobs        |-> jobs,
       output      |-> sitemapOf(jobs, now),
       lookups     |-> 1,
       searches    |-> 1,
       fetched     |-> outcome # Undefined]

\* What a findJobBySlug call of the detail page that searched leaves in
\* ret: call.op is generateMetadata or JobDetail
DetailReturn(call, result, outcome, remembered) ==
  LET found == FindReturn(call, result, outcome, remembered)
  IN  [op          |-> call.op,
       slug        |-> call.slug,
       criteria    |-> call.criteria,
       queryString |-> call.queryString,
       threw       |-> found.threw,
       value       |-> found.value,
       lookups     |-> call.lookups,
       searches    |-> call.searches + 1,
       fetched     |-> outcome # Undefined]

\* outcome is how the call's fetch settled, Undefined when it made none
CallReturn(call, result, outcome, remembered) ==
  CASE call.op = "searchJobs" ->
         SearchReturn(call.criteria, call.queryString, result, outcome, remembered)
    [] call.op = "findJobBySlug" -> FindReturn(call, result, outcome, remembered)
    [] call.op = "Home" -> HomeReturn(call, result, outcome, remembered)
    [] call.op = "sitemap" -> SitemapReturn(call, result, outcome, remembered)
    [] OTHER -> DetailReturn(call, result, outcome, remembered)

\* cachedSearch(queryString) up to its first await, for the call `call`:
\* served from the response cache, or the callback runs: it throws
\* at once when buildAuthHeader throws, and otherwise issues the fetch.
\* At most `cap` calls wait for their fetch at the same time.
CachedSearchStartUpTo(call, atEdge, cap) ==
  IF cacheServes(respCache, call.queryString, now, atEdge)
  THEN /\ ret' = CallReturn(call, Returned(RespGet(respCache, call.queryString).data),
                            Undefined, <<>>)
       /\ UNCHANGED <<respCache, reqs, stores>>
  ELSE IF buildAuthHeader(apiKey).threw
  THEN /\ ret' = CallReturn(call, buildAuthHeader(apiKey), Undefined, <<>>)
       /\ UNCHANGED <<respCache, reqs, stores>>
  ELSE /\ BagCardinality(reqs) < cap
       /\ reqs' = reqs (+) SetToBag({call})
       /\ ret' = NoCall
       /\ UNCHANGED <<respCache, stores>>

CachedSearchStart(call, atEdge) == CachedSearchStartUpTo(call, atEdge, MaxInFlight)

\* searchJobs(criteria), called by the listing page or the sitemap with the
\* inbound headers hdr, at most `cap` calls waiting for their fetch
SearchJobsUpTo(criteria, hdr, atEdge, cap) ==
  /\ ret = NoCall
  /\ LET requestMeta == getRequestMetadata(hdr)
         queryString == buildQueryString(criteria, requestMeta)
     IN  CachedSearchStartUpTo([op |-> "searchJobs", criteria |-> criteria,
                                   queryString |-> queryString], atEdge, cap)
  /\ UNCHANGED <<now, apiKey, jobCache, codec>>

SearchJobs(criteria, hdr, atEdge) == SearchJobsUpTo(criteria, hdr, atEdge, MaxInFlight)

\* findJobBySlug(slug, buildFallbackCriteria(searchParams)), called by the
\* detail page
FindJobBySlug(slug, searchParams, hdr, atEdge) ==
  /\ ret = NoCall
  /\ LET fallbackCriteria == buildFallbackCriteria(searchParams)
         hash     == extractHashFromSlug(slug)
         lookup   == getJobFromCache(jobCache, hash, now)
         criteria == searchCriteriaForSlug(slug, fallbackCriteria)
         queryString == buildQueryString(criteria, getRequestMetadata(hdr))
     IN  /\ jobCache' = lookup.cache
         /\ IF lookup.value # Undefined
            THEN /\ ret' = [op |-> "findJobBySlug", slug |-> slug, hit |-> TRUE,
                            searches |-> 0, threw |-> FALSE,
                            value |-> lookup.value, fetched |-> FALSE,
                            remembered |-> <<>>, at |-> 0]
                 /\ UNCHANGED <<respCache, reqs, stores>>
            ELSE CachedSearchStart([op |-> "findJobBySlug", slug |-> slug,
                                       criteria |-> criteria,
                                       queryString |-> queryString], atEdge)
  /\ UNCHANGED <<now, apiKey, codec>>

\* The fetch of the waiting call `call` settles with `outcome`: the rest
\* of the cachedSearch callback runs, a returned value is stored in the
\* response cache, and the call completes.  At most `cap` responses are
\* stored in a run.
FetchSettlesUpTo(call, outcome, cap) ==
  /\ ret = NoCall
  /\ BagIn(call, reqs)
  /\ LET settled == fetchSettled(outcome, jobCache, now)
     IN  /\ jobCache' = settled.cache
         /\ IF settled.result.threw
            THEN UNCHANGED <<respCache, stores>>
            ELSE /\ stores < cap
                 /\ stores' = stores + 1
                 /\ respCache' = RespSet(respCache, call.queryString,
                                         settled.result.value, now)
         /\ ret' = CallReturn(call, settled.result, outcome, settled.remembered)
  /\ reqs' = reqs (-) SetToBag({call})
  /\ UNCHANGED <<now, apiKey, codec>>

FetchSettles(call, outcome) == FetchSettlesUpTo(call, outcome, MaxStores)

\* getJobFromCache(hash), called on its own
GetJobFromCache(hash) ==
  /\ ret = NoCall
  /\ LET lookup == getJobFromCache(jobCache, hash, now)
     IN  /\ jobCache' = lookup.cache
         /\ ret' = [op     |-> "getJobFromCache",
                    hash   |-> hash,
                    cached |-> MapGet(jobCache, hash),
                    value  |-> lookup.value]
  /\ UNCHANGED <<now, apiKey, respCache, reqs, stores, codec>>

\* getCachedJobsSnapshot()
GetCachedJobsSnapshot ==
  /\ ret = NoCall
  /\ LET snapshot == getCachedJobsSnapshot(jobCache, now)
     IN  /\ jobCache' = snapshot.cache
         /\ ret' = [op      |-> "getCachedJobsSnapshot",
                    value   |-> snapshot.value,
                    evicted |-> Len(jobCache) - Len(snapshot.cache)]
  /\ UNCHANGED <<now, apiKey, respCache, reqs, stores, codec>>

\* Whether the query string's entry is exactly as old as the window
AtEdge(criteria, hdr) ==
  LET queryString == buildQueryString(criteria, getRequestMetadata(hdr))
  IN  /\ RespHas(respCache, queryString)
      /\ now - RespGet(respCache, queryString).at = CACHE_TTL_SECONDS * 1000

EdgeChoices(criteria, hdr) == IF AtEdge(criteria, hdr) THEN BOOLEAN ELSE {FALSE}

Next ==
  \/ Tick
  \/ ReturnToCaller
  \/ ret = NoCall /\ \E criteria \in SearchCriteria, hdr \in HeaderInputs :
        \E atEdge \in EdgeChoices(criteria, hdr) : SearchJobs(criteria, hdr, atEdge)
  \/ ret = NoCall /\ \E slug \in SlugInputs, searchParams \in SearchParamInputs,
                          hdr \in DetailHeaderInputs :
        \E atEdge \in EdgeChoices(searchCriteriaForSlug(slug,
                                     buildFallbackCriteria(searchParams)), hdr) :
          FindJobBySlug(slug, searchParams, hdr, atEdge)
  \/ ret = NoCall /\ \E call \in BagToSet(reqs), outcome \in FetchOutcomes :
        FetchSettles(call, outcome)
  \/ \E hash \in HashInputs : GetJobFromCache(hash)
  \/ GetCachedJobsSnapshot

Spec == Init /\ [][Next]_vars

(***************************************************************************)
(* The renders: the listing page (Home), the sitemap, and the job detail   *)
(* page, whose generateMetadata and JobDetail each call findJobBySlug.     *)
(***************************************************************************)

\* Home: the listing page searches with the criteria of its searchParams
Home(criteria, hdr, atEdge) ==
  /\ ret = NoCall
  /\ CachedSearchStart([op |-> "Home", criteria |-> criteria,
                        queryString |-> buildQueryString(criteria,
                                          getRequestMetadata(hdr))], atEdge)
  /\ UNCHANGED <<now, apiKey, jobCache, codec>>

\* The criteria sitemap() searches with
SitemapCriteria == [pageSize |-> 20]

\* sitemap(): the snapshot of the job cache and, when it is empty, a search
Sitemap(hdr, atEdge) ==
  /\ ret = NoCall
  /\ LET snapshot == getCachedJobsSnapshot(jobCache, now)
     IN  /\ jobCache' = snapshot.cache
         /\ IF snapshotIsEmpty(snapshot.value)
            THEN CachedSearchStart(
                   [op |-> "sitemap", snapshot |-> snapshot.value,
                    criteria |-> SitemapCriteria,
                    queryString |-> buildQueryString(SitemapCriteria,
                                      getRequestMetadata(hdr))], atEdge)
            ELSE /\ ret' = [op       |-> "sitemap",
                            snapshot |-> snapshot.value,
                            response |-> Undefined,
                            jobs     |-> snapshot.value,
                            output   |-> sitemapOf(snapshot.value, now),
                            lookups  |-> 1,
                            searches |-> 0,
                            fetched  |-> FALSE]
                 /\ UNCHANGED <<respCache, reqs, stores>>
  /\ UNCHANGED <<now, apiKey, codec>>

\* findJobBySlug as the detail page calls it, for its function `op`, after
\* `lookups` lookups and `searches` searches of the same render
DetailFind(op, slug, criteria, queryString, lookups, searches, atEdge) ==
  LET lookup == getJobFromCache(jobCache, extractHashFromSlug(slug), now)
  IN  /\ jobCache' = lookup.cache
      /\ IF lookup.value # Undefined
         THEN /\ ret' = [op          |-> op,
                         slug        |-> slug,
                         criteria    |-> criteria,
                         queryString |-> queryString,
                         threw       |-> FALSE,
                         value       |-> lookup.value,
                         lookups     |-> lookups + 1,
                         searches    |-> searches,
                         fetched     |-> FALSE]
              /\ UNCHANGED <<respCache, reqs, stores>>
         ELSE CachedSearchStart([op |-> op, slug |-> slug, criteria |-> criteria,
                                 queryString |-> queryString,
                                 lookups |-> lookups + 1,
                                 searches |-> searches], atEdge)

\* generateMetadata of the detail page
GenerateMetadata(slug, searchParams, hdr, atEdge) ==
  /\ ret = NoCall
  /\ LET criteria == searchCriteriaForSlug(slug, buildFallbackCriteria(searchParams))
     IN  DetailFind("generateMetadata", slug, criteria,
                    buildQueryString(criteria, getRequestMetadata(hdr)), 0, 0, atEdge)
  /\ UNCHANGED <<now, apiKey, codec>>

\* JobDetail, the page itself, rendered once generateMetadata has returned:
\* the same slug, searchParams and headers
JobDetail(atEdge) ==
  /\ ret.op = "generateMetadata"
  /\ DetailFind("JobDetail", ret.slug, ret.criteria, ret.queryString,
                ret.lookups, ret.searches, atEdge)
  /\ UNCHANGED <<now, apiKey, codec>>

\* The render is over: its output is sent
RenderDone ==
  /\ ret.op \in {"Home", "sitemap", "JobDetail"}
  /\ ReturnToCaller

EdgeChoicesOf(queryString) ==
  IF /\ RespHas(respCache, queryString)
     /\ now - RespGet(respCache, queryString).at = CACHE_TTL_SECONDS * 1000
  THEN BOOLEAN ELSE {FALSE}

\* The searchParams of the detail page's renders
RenderSearchParamInputs == { NoCriteria }

\* How the fetches of the renders settle: rejected, or answered with a
\* payload
RenderOutcomes ==
  {o \in FetchOutcomes : o.kind = "network" \/ (o.kind = "http" /\ o.ok)}

PageNext ==
  \/ Tick
  \/ RenderDone
  \/ \E criteria \in SearchCriteria, hdr \in DetailHeaderInputs :
       \E atEdge \in EdgeChoices(criteria, hdr) : Home(criteria, hdr, atEdge)
  \/ \E hdr \in DetailHeaderInputs :
       \E atEdge \in EdgeChoices(SitemapCriteria, hdr) : Sitemap(hdr, atEdge)
  \/ \E slug \in SlugInputs, searchParams \in RenderSearchParamInputs,
        hdr \in DetailHeaderInputs :
       \E atEdge \in EdgeChoices(searchCriteriaForSlug(slug,
                                    buildFallbackCriteria(searchParams)), hdr) :
         GenerateMetadata(slug, searchParams, hdr, atEdge)
  \/ ret.op = "generateMetadata" /\ \E atEdge \in EdgeChoicesOf(ret.queryString) :
       JobDetail(atEdge)
  \/ \E call \in BagToSet(reqs), outcome \in RenderOutcomes :
       FetchSettles(call, outcome)

PageSpec == Init /\ [][PageNext]_vars

(***************************************************************************)
(* The job cache under concurrent writers: up to MaxWriters searchJobs     *)
(* calls wait for their fetch at the same time, their fetches settle in    *)
(* any order, and getJobFromCache and getCachedJobsSnapshot read the cache *)
(* in between.                                                             *)
(***************************************************************************)

CacheNext ==
  \/ Tick
  \/ ReturnToCaller
  \/ \E criteria \in SearchCriteria, hdr \in HeaderInputs :
       \E atEdge \in EdgeChoices(criteria, hdr) :
         SearchJobsUpTo(criteria, hdr, atEdge, MaxWriters)
  \/ \E call \in BagToSet(reqs), outcome \in WriterOutcomes :
       FetchSettlesUpTo(call, outcome, MaxWrites)
  \/ \E hash \in WriterHashes : GetJobFromCache(hash)
  \/ GetCachedJobsSnapshot

CacheSpec == Init /\ [][CacheNext]_vars

(***************************************************************************)
(* The slug codec on its own: makeJobSlug and extractHashFromSlug applied  *)
(* to every title of up to MaxTitleLen characters and every URL.           *)
(***************************************************************************)

\* Titles a second slug is made from
OtherTitles == {<<>>, <<"a">>, <<"B", " ", "a">>}

SlugInit ==
  /\ now = 0
  /\ apiKey = TRUE
  /\ jobCache = <<>>
  /\ respCache = <<>>
  /\ reqs = EmptyBag
  /\ stores = 0
  /\ ret = NoCall
  /\ codec \in {[phase |-> "input", title |-> t, url |-> u] : t \in Titles, u \in Urls}

\* slug = makeJobSlug(title, url)
MakeJobSlug ==
  /\ codec.phase = "input"
  /\ codec' = [phase |-> "slug", title |-> codec.title, url |-> codec.url,
               slug |-> makeJobSlug(codec.title, codec.url)]
  /\ UNCHANGED <<now, apiKey, jobCache, respCache, reqs, stores, ret>>

\* hash = extractHashFromSlug(slug)
ExtractHashFromSlug ==
  /\ codec.phase = "slug"
  /\ codec' = [phase |-> "hash", title |-> codec.title, url |-> codec.url,
               slug |-> codec.slug, hash |-> extractHashFromSlug(codec.slug)]
  /\ UNCHANGED <<now, apiKey, jobCache, respCache, reqs, stores, ret>>

\* A second slug, made with the same title or the same URL:
\* slug2 = makeJobSlug(title2, url2)
MakeSecondSlug(title2, url2) ==
  /\ codec.phase = "hash"
  /\ title2 = codec.title \/ url2 = codec.url
  /\ codec' = [phase |-> "pair", title |-> codec.title, url |-> codec.url,
               slug |-> codec.slug, hash |-> codec.hash,
               title2 |-> title2, url2 |-> url2,
               slug2 |-> makeJobSlug(title2, url2)]
  /\ UNCHANGED <<now, apiKey, jobCache, respCache, reqs, stores, ret>>

SlugNext ==
  \/ MakeJobSlug
  \/ ExtractHashFromSlug
  \/ \E title2 \in OtherTitles \cup {codec.title}, url2 \in Urls :
       MakeSecondSlug(title2, url2)

SlugSpec == SlugInit /\ [][SlugNext]_vars

(***************************************************************************)
(* Properties                                                              *)
(***************************************************************************)

\* The response of the search a completed call made
SearchResponseOf(r) == IF r.op = "searchJobs" THEN r.value ELSE r.response

\* The completed call searched (searchJobs itself, or findJobBySlug on a miss)
Searched(r) == r.op = "searchJobs" \/ (r.op = "findJobBySlug" /\ ~r.hit)

\* The call's fetch failed: rejected, non-2xx, or a body that does not parse
FetchFailed(r) ==
  /\ r.outcome # Undefined
  /\ r.outcome.kind \in {"network", "badjson"} \/ ~r.outcome.ok

\* A call of `op` is made in this step: it completes at once, or it is
\* left waiting for its fetch.
Calls(op) ==
  /\ ret = NoCall
  /\ IF reqs' = reqs
     THEN ret'.op = op
     ELSE \E call \in BagToSet(reqs') :
            call.op = op /\ CopiesIn(call, reqs') > CopiesIn(call, reqs)

\* C1: searchJobs never throws for an upstream failure: when the fetch is
\* rejected, answered with a non-2xx status or does not parse, the search
\* returns the response {type "ERROR", hits 0, pages 1, jobs [], message}
\* with the error's message, which is not empty for a non-2xx answer.
C1_UpstreamFailureIsAnErrorResponse ==
  Searched(ret) =>
    /\ ~ret.threw
    /\ FetchFailed(ret) =>
         /\ ret.error # Undefined
         /\ SearchResponseOf(ret) =
              [type |-> "ERROR", message |-> ret.error.message,
               hits |-> 0, pages |-> 1, jobs |-> <<>>]
         /\ ret.outcome.kind = "network" => ret.error = ret.outcome.error
         /\ (ret.outcome.kind = "http" /\ ~ret.outcome.ok) =>
              /\ ~IsEmptyText(SearchResponseOf(ret).message)
              /\ ret.error.message[2] = ret.outcome.status

C1_Witness ==
  /\ ret.op = "searchJobs"
  /\ FetchFailed(ret)
  /\ ret.outcome.kind = "http"
  /\ ret.outcome.status = "500"
  /\ ret.value.type = "ERROR"

C3_ExpiredEntryIsGone ==
  [][ /\ Calls("getJobFromCache") => \A hash \in HashInputs :
           ( /\ ret = NoCall
             /\ MapHas(jobCache, hash)
             /\ MapGet(jobCache, hash).expiresAt < now
             /\ GetJobFromCache(hash) )
           => /\ ret'.value = Undefined
              /\ ~MapHas(jobCache', hash)
      /\ (Calls("getCachedJobsSnapshot") /\ GetCachedJobsSnapshot) =>
           /\ \A i \in 1..Len(jobCache) :
                jobCache[i].expiresAt < now => ~MapHas(jobCache', jobCache[i].hash)
           /\ \A k \in 1..Len(ret'.value) :
                \E i \in 1..Len(jobCache) :
                  /\ jobCache[i].job = ret'.value[k]
                  /\ jobCache[i].expiresAt >= now
    ]_vars

C3_Witness ==
  /\ ret.op = "getJobFromCache"
  /\ ret.cached # Undefined
  /\ ret.cached.expiresAt < now
  /\ ret.value = Undefined
  /\ ~MapHas(jobCache, ret.hash)

\* The instants from now up to the expiration of what was just remembered
InstantsUntilExpiry == {t \in Instants : now <= t /\ t <= ret.at + JOB_CACHE_TTL_MS}

\* The last job of the batch whose slug has the hash suffix `hash`
LastWithHash(jobs, hash) ==
  jobs[CHOOSE i \in 1..Len(jobs) :
         /\ extractHashFromSlug(jobs[i].slug) = hash
         /\ \A k \in (i + 1)..Len(jobs) : extractHashFromSlug(jobs[k].slug) # hash]

\* C4 as stated: right after rememberJobs(batch), and until the expiration,
\* getJobFromCache(extractHashFromSlug(j.slug)) returns j for every job j
\* of the batch.
C4_GetReturnsEveryRememberedJob ==
  (Searched(ret) /\ ret.remembered # <<>>) =>
    \A i \in 1..Len(ret.remembered), t \in InstantsUntilExpiry :
      getJobFromCache(jobCache, extractHashFromSlug(ret.remembered[i].slug), t).value
        = ret.remembered[i]

\* C4, amended: right after rememberJobs(batch), and until the expiration,
\* getJobFromCache(extractHashFromSlug(j.slug)) returns the last job of the
\* batch that has j's hash suffix: j itself when no later job of the batch
\* shares it.
C4_GetReturnsLastRememberedJob ==
  (Searched(ret) /\ ret.remembered # <<>>) =>
    \A i \in 1..Len(ret.remembered), t \in InstantsUntilExpiry :
      LET hash == extractHashFromSlug(ret.remembered[i].slug)
      IN  /\ getJobFromCache(jobCache, hash, t).value = LastWithHash(ret.remembered, hash)
          /\ getJobFromCache(jobCache, hash, t).cache = jobCache

C4_Witness ==
  /\ Searched(ret)
  /\ \E i, k \in 1..Len(ret.remembered) :
       /\ i < k
       /\ extractHashFromSlug(ret.remembered[i].slug)
            = extractHashFromSlug(ret.remembered[k].slug)
       /\ ret.remembered[i] # ret.remembered[k]
  /\ \E i \in 1..Len(ret.remembered) :
       getJobFromCache(jobCache, extractHashFromSlug(ret.remembered[i].slug),
                       ret.at + JOB_CACHE_TTL_MS).value = ret.remembered[i]

\* The window of the response cache, in milliseconds
WindowMs == CACHE_TTL_SECONDS * 1000

\* The response cache holds a response younger than the window that was
\* fetched for these criteria, under some caller's headers
FetchedForCriteria(criteria) ==
  \E hdr \in HeaderInputs :
    LET key == buildQueryString(criteria, getRequestMetadata(hdr))
    IN  RespHas(respCache, key) /\ now - RespGet(respCache, key).at < WindowMs

\* C5 as stated: a searchJobs call with the criteria of a response fetched
\* less than 600 seconds ago makes no network request.
C5_SameCriteriaMakeNoRequest ==
  [][ Calls("searchJobs") =>
      \A criteria \in SearchCriteria, hdr \in HeaderInputs, atEdge \in BOOLEAN :
        (ret = NoCall /\ FetchedForCriteria(criteria) /\ SearchJobs(criteria, hdr, atEdge))
        => (reqs' = reqs /\ ~ret'.fetched)
    ]_vars

\* C5, amended: a searchJobs call whose query string (the criteria together
\* with the caller's IP and user agent) is that of a response stored less
\* than 600 seconds ago makes no network request and returns the stored
\* response.
C5_SameQueryStringMakesNoRequest ==
  [][ Calls("searchJobs") =>
      \A criteria \in SearchCriteria, hdr \in HeaderInputs, atEdge \in BOOLEAN :
        LET key == buildQueryString(criteria, getRequestMetadata(hdr))
        IN  ( /\ ret = NoCall
              /\ RespHas(respCache, key)
              /\ now - RespGet(respCache, key).at < WindowMs
              /\ SearchJobs(criteria, hdr, atEdge) )
            => /\ reqs' = reqs
               /\ ret'.op = "searchJobs"
               /\ ~ret'.fetched
               /\ ~ret'.threw
               /\ ret'.value = RespGet(respCache, key).data
               /\ respCache' = respCache
               /\ jobCache' = jobCache
    ]_vars

C5_Witness ==
  /\ ret.op = "searchJobs"
  /\ ~ret.fetched
  /\ ret.error = Undefined
  /\ RespHas(respCache, ret.queryString)
  /\ now - RespGet(respCache, ret.queryString).at > 0
  /\ now - RespGet(respCache, ret.queryString).at < WindowMs
  /\ ret.value = RespGet(respCache, ret.queryString).data

\* C6: findJobBySlug on a job-cache hit returns the cached job at once: no
\* search, no network request, both caches unchanged.
C6_HitReturnsWithoutSearching ==
  [][ Calls("findJobBySlug") =>
      \A slug \in SlugInputs, searchParams \in SearchParamInputs,
         hdr \in DetailHeaderInputs, atEdge \in BOOLEAN :
        LET hash == extractHashFromSlug(slug)
        IN  ( /\ ret = NoCall
              /\ MapHas(jobCache, hash)
              /\ MapGet(jobCache, hash).expiresAt >= now
              /\ FindJobBySlug(slug, searchParams, hdr, atEdge) )
            => /\ ret'.op = "findJobBySlug"
               /\ ret'.value = MapGet(jobCache, hash).job
               /\ ret'.searches = 0
               /\ ~ret'.fetched
               /\ reqs' = reqs
               /\ respCache' = respCache
               /\ jobCache' = jobCache
    ]_vars

C6_Witness ==
  /\ ret.op = "findJobBySlug"
  /\ ret.hit
  /\ MapHas(jobCache, extractHashFromSlug(ret.slug))
  /\ ret.value = MapGet(jobCache, extractHashFromSlug(ret.slug)).job

\* The page of results holds no job whose slug has the slug's hash suffix
NoMatchInPage(response, slug) ==
  \/ ~Has(response, "jobs")
  \/ \A i \in 1..Len(response.jobs) :
       extractHashFromSlug(response.jobs[i].slug) # extractHashFromSlug(slug)

\* C7: findJobBySlug on a job-cache miss makes exactly one search, and
\* returns not-found when that page holds no job with the slug's hash
\* suffix.
C7_MissSearchesOnce ==
  (ret.op = "findJobBySlug" /\ ~ret.hit) =>
    /\ ret.searches = 1
    /\ NoMatchInPage(ret.response, ret.slug) => ret.value = Undefined

C7_Witness ==
  /\ ret.op = "findJobBySlug"
  /\ ~ret.hit
  /\ Has(ret.response, "jobs")
  /\ ret.response.jobs # <<>>
  /\ NoMatchInPage(ret.response, ret.slug)
  /\ ret.value = Undefined

\* The slug's segments but the last, joined with single spaces
SegmentsJoined(slug) ==
  LET parts == split(slug, "-")
  IN  join(SubSeq(parts, 1, Len(parts) - 1), <<" ">>)

RECURSIVE CollapseSpaces(_)
CollapseSpaces(s) ==
  IF Len(s) < 2 THEN s
  ELSE IF s[1] = " " /\ s[2] = " " THEN CollapseSpaces(Tail(s))
       ELSE <<s[1]>> \o CollapseSpaces(Tail(s))

\* The criteria a findJobBySlug call that missed the job cache searched
\* with in this step: those of the call it left waiting for its fetch, or
\* those of the search it completed at once.
CriteriaSearchedWith(slug) ==
  IF reqs' # reqs
  THEN {call.criteria : call \in {c \in BagToSet(reqs') :
          /\ c.op = "findJobBySlug"
          /\ c.slug = slug
          /\ CopiesIn(c, reqs') > CopiesIn(c, reqs)}}
  ELSE {ret'.criteria}

\* The step is findJobBySlug(slug, buildFallbackCriteria(searchParams))
\* missing the job cache
FindMisses(slug, searchParams) ==
  /\ ret = NoCall
  /\ getJobFromCache(jobCache, extractHashFromSlug(slug), now).value = Undefined
  /\ \E hdr \in DetailHeaderInputs, atEdge \in BOOLEAN :
       FindJobBySlug(slug, searchParams, hdr, atEdge)

\* C8 as stated: on a miss the keywords searched with are the slug's
\* segments but the last, joined with single spaces, whatever the fallback
\* criteria.
C8_KeywordsAlwaysFromSlug ==
  [][ Calls("findJobBySlug") =>
      \A slug \in SlugInputs, searchParams \in SearchParamInputs :
        FindMisses(slug, searchParams) =>
          \A criteria \in CriteriaSearchedWith(slug) :
            /\ Has(criteria, "keywords")
            /\ criteria.keywords = SegmentsJoined(slug)
    ]_vars

\* C8, amended: on a miss the search is made with the fallback criteria;
\* only when these carry no (non-empty) keywords are the keywords set to
\* the slug's segments but the last, joined with spaces, every run of
\* spaces collapsed to one.  Fallback keywords are searched with unchanged.
C8_KeywordsFromSlugUnlessGiven ==
  [][ Calls("findJobBySlug") =>
      \A slug \in SlugInputs, searchParams \in SearchParamInputs :
        FindMisses(slug, searchParams) =>
          LET fallback == buildFallbackCriteria(searchParams)
          IN  /\ CriteriaSearchedWith(slug) # {}
              /\ \A criteria \in CriteriaSearchedWith(slug) :
                   /\ DOMAIN criteria = DOMAIN fallback \cup {"keywords"}
                   /\ \A f \in DOMAIN fallback \ {"keywords"} :
                        criteria[f] = fallback[f]
                   /\ IF Has(fallback, "keywords") /\ fallback.keywords # <<>>
                      THEN criteria.keywords = fallback.keywords
                      ELSE criteria.keywords = CollapseSpaces(SegmentsJoined(slug))
    ]_vars

C8_Witness ==
  /\ ret.op = "findJobBySlug"
  /\ ~ret.hit
  /\ ret.criteria.keywords = <<"b", " ", "a">>
  /\ SegmentsJoined(ret.slug) = <<"b", " ", " ", "a">>

\* C9: extractHashFromSlug(makeJobSlug(title, url)) is the first 10
\* characters of the URL's hexadecimal SHA-256 digest, for every title,
\* also one that normalizes to empty and is replaced by "job-opening".
C9_HashRoundTrip ==
  codec.phase \in {"hash", "pair"} =>
    /\ codec.hash = SubSeq(Sha256Hex(codec.url), 1, 10)
    /\ Len(codec.hash) = 10
    /\ \A i \in 1..Len(codec.hash) : codec.hash[i] \in HexDigits

C9_Witness ==
  /\ codec.phase = "hash"
  /\ slugify(codec.title) = <<>>
  /\ codec.title # <<>>
  /\ codec.slug = JobOpeningToken \o <<"-">> \o codec.hash

\* The part of a slug before its last hyphen
BeforeLastHyphen(slug) ==
  LET parts == split(slug, "-")
  IN  join(SubSeq(parts, 1, Len(parts) - 1), <<"-">>)

\* The part of a slug after its last hyphen
AfterLastHyphen(slug) ==
  LET parts == split(slug, "-")
  IN  parts[Len(parts)]

\* C10: makeJobSlug gives the same slug for the same (title, url); the
\* part before the last hyphen depends on the title alone and the part
\* after it on the URL alone.
C10_SlugIsSeparable ==
  codec.phase = "pair" =>
    /\ (codec.title2 = codec.title /\ codec.url2 = codec.url) => codec.slug2 = codec.slug
    /\ codec.title2 = codec.title =>
         BeforeLastHyphen(codec.slug2) = BeforeLastHyphen(codec.slug)
    /\ codec.url2 = codec.url =>
         AfterLastHyphen(codec.slug2) = AfterLastHyphen(codec.slug)

C10_Witness ==
  /\ codec.phase = "pair"
  /\ codec.title2 = codec.title
  /\ codec.url2 # codec.url
  /\ codec.slug2 # codec.slug
  /\ BeforeLastHyphen(codec.slug2) = BeforeLastHyphen(codec.slug)

\* C11: on the listing page a LOCATIONS response without jobs is rendered
\* as the location prompt, listing the returned locations, and never as
\* the empty-results state; the empty-results state is shown exactly when
\* there are no jobs and the type is not LOCATIONS.
C11_LocationsAreAPromptNotEmptyResults ==
  (ret.op = "Home" /\ ~ret.threw) =>
    LET response == ret.response
        jobs     == OrElse(response, "jobs", <<>>)
    IN  /\ (response.type = "LOCATIONS" /\ Len(jobs) = 0) =>
             /\ ret.output.locationsPrompt
             /\ ret.output.promptLocations = OrElse(response, "locations", <<>>)
             /\ ~ret.output.emptyState
        /\ ret.output.emptyState <=>
             (Len(jobs) = 0 /\ response.type # "LOCATIONS")

C11_Witness ==
  /\ ret.op = "Home"
  /\ ret.response.type = "LOCATIONS"
  /\ ~Has(ret.response, "jobs")
  /\ ret.output.locationsPrompt
  /\ ret.output.promptLocations = <<"Austin, TX", "Austin, MN">>
  /\ ~ret.output.emptyState

\* C12: getCachedJobsSnapshot returns exactly the jobs of the entries not
\* expired at call time (expiresAt >= now), and leaves in the job cache
\* exactly those entries, unchanged: every expired entry is removed, no
\* other entry is removed or changed.
C12_SnapshotIsExactlyTheLiveEntries ==
  [][ (Calls("getCachedJobsSnapshot") /\ GetCachedJobsSnapshot) =>
        LET live == {i \in 1..Len(jobCache) : jobCache[i].expiresAt >= now}
        IN  /\ Len(jobCache') = Cardinality(live)
            /\ \A i \in live : \E k \in 1..Len(jobCache') : jobCache'[k] = jobCache[i]
            /\ \A k \in 1..Len(jobCache') : \E i \in live : jobCache'[k] = jobCache[i]
            /\ Len(ret'.value) = Len(jobCache')
            /\ \A k \in 1..Len(jobCache') : ret'.value[k] = jobCache'[k].job
    ]_vars

C12_Witness ==
  /\ ret.op = "getCachedJobsSnapshot"
  /\ ret.evicted > 0
  /\ Len(ret.value) > 0
  /\ \E k \in 1..Len(jobCache) : jobCache[k].expiresAt = now

\* The sitemap is the home-page entry followed by one entry per job of
\* `jobs`, in order
ListsHomeThenJobs(output, jobs) ==
  /\ Len(output) = 1 + Len(jobs)
  /\ output[1].url = <<SiteOrigin, "/">>
  /\ \A i \in 1..Len(jobs) :
       output[i + 1].url = <<SiteOrigin, "/jobs/">> \o jobs[i].slug

\* C13 as stated: the sitemap is the home-page entry followed by exactly one
\* entry per job returned by getCachedJobsSnapshot at generation time, and
\* holds no job entry from any other origin.
C13_SitemapListsTheSnapshotOnly ==
  ret.op = "sitemap" => ListsHomeThenJobs(ret.output, ret.snapshot)

\* C13, amended: the sitemap is the home-page entry followed by one entry
\* per job of the snapshot when the snapshot is not empty; when it is
\* empty, sitemap() searches once and lists one entry per job of the
\* response it gets (none when the response has no jobs).
C13_SitemapListsSnapshotOrSearch ==
  ret.op = "sitemap" =>
    /\ ret.snapshot # <<>> =>
         /\ ret.searches = 0
         /\ ListsHomeThenJobs(ret.output, ret.snapshot)
    /\ ret.snapshot = <<>> =>
         /\ ret.searches = 1
         /\ ret.response # Undefined
         /\ ListsHomeThenJobs(ret.output, OrElse(ret.response, "jobs", <<>>))

C13_Witness ==
  /\ ret.op = "sitemap"
  /\ ret.snapshot = <<>>
  /\ ret.response.type = "JOBS"
  /\ Len(ret.output) = 1 + Len(ret.response.jobs)
  /\ Len(ret.output) > 1 + Len(jobCache)

\* The jobs remembered by the call that completes with r
RememberedBy(r) == IF Has(r, "remembered") THEN r.remembered ELSE <<>>

FifteenMinutes == 15 * 60 * 1000

\* C14: an entry expires exactly 15 minutes after the rememberJobs call
\* that wrote it.  In every step, an entry of the job cache afterwards was
\* either written in this step, and expires 15 minutes from now, or was
\* there before with the same job and expiration: no read changes it.  A
\* getJobFromCache on an entry returns its job at every time up to and
\* including its expiration, and not-found at every later time.
C14_ExpirationIsFixedAtWrite ==
  [][ /\ \A k \in 1..Len(jobCache') :
           LET e == jobCache'[k]
           IN  IF \E i \in 1..Len(RememberedBy(ret')) :
                    extractHashFromSlug(RememberedBy(ret')[i].slug) = e.hash
               THEN e.expiresAt = now + FifteenMinutes
               ELSE MapHas(jobCache, e.hash) /\ MapGet(jobCache, e.hash) = e
      /\ \A k \in 1..Len(jobCache), t \in Instants :
           LET e == jobCache[k]
           IN  /\ t <= e.expiresAt => getJobFromCache(jobCache, e.hash, t).value = e.job
               /\ t > e.expiresAt => getJobFromCache(jobCache, e.hash, t).value = Undefined
      /\ Calls("getJobFromCache") =>
           \A hash \in HashInputs :
             (MapHas(jobCache, hash) /\ GetJobFromCache(hash)) =>
               IF now <= MapGet(jobCache, hash).expiresAt
               THEN ret'.value = MapGet(jobCache, hash).job
               ELSE ret'.value = Undefined
    ]_vars

C14_Witness ==
  /\ ret.op = "getJobFromCache"
  /\ ret.cached # Undefined
  /\ ret.cached.expiresAt = now
  /\ now = FifteenMinutes
  /\ ret.value = ret.cached.job
  /\ MapGet(jobCache, ret.hash) = ret.cached

\* The render that completes in this state
RenderCompleted == ret.op \in {"Home", "sitemap", "JobDetail"}

\* C15 as stated: every render (listing page, detail page, sitemap) makes
\* at most one call of the search client and at most one job-cache lookup.
C15_OneSearchOneLookupPerRender ==
  RenderCompleted => (ret.searches <= 1 /\ ret.lookups <= 1)

\* C15, amended: a render of the listing page makes exactly one search and
\* no lookup; a sitemap makes one snapshot of the job cache and a search
\* only when the snapshot is empty; a render of the detail page calls
\* findJobBySlug twice, once in generateMetadata and once in JobDetail: two
\* lookups, and one search for each lookup that missed, so up to two.
C15_SearchesAndLookupsPerRender ==
  /\ ret.op = "Home" => (ret.searches = 1 /\ ret.lookups = 0)
  /\ ret.op = "sitemap" =>
       /\ ret.lookups = 1
       /\ ret.searches = IF ret.snapshot = <<>> THEN 1 ELSE 0
  /\ ret.op = "generateMetadata" => (ret.lookups = 1 /\ ret.searches <= 1)
  /\ ret.op = "JobDetail" => (ret.lookups = 2 /\ ret.searches <= 2)

C15_Witness ==
  /\ ret.op = "JobDetail"
  /\ ret.lookups = 2
  /\ ret.searches = 2
  /\ ret.value = Undefined

\* The hash suffixes of the jobs of a batch
HashesOf(jobs) == {extractHashFromSlug(jobs[i].slug) : i \in 1..Len(jobs)}

\* The job a batch leaves under a hash suffix: the last one, in array
\* order, whose slug has it
LastJobUnder(jobs, hash) ==
  LET last == CHOOSE i \in 1..Len(jobs) :
                /\ extractHashFromSlug(jobs[i].slug) = hash
                /\ \A k \in (i + 1)..Len(jobs) :
                     extractHashFromSlug(jobs[k].slug) # hash
  IN  jobs[last]

\* The fetch of one of several waiting requests settles with a page of
\* jobs in this step
WriterSettles ==
  /\ ret = NoCall
  /\ ret'.op = "searchJobs"
  /\ ret'.fetched
  /\ ret'.remembered # <<>>

\* C16: whatever the order in which the fetches of concurrent requests
\* settle, each write of a batch is applied whole in one step: afterwards
\* every hash of the batch maps to the last job of the batch under that
\* hash, expiring 15 minutes from now, whatever an earlier writer left
\* there (last write wins), and every entry under another hash is exactly
\* as before (writers to different hashes do not interfere).  Steps that
\* write no batch add no entry, so a reader never sees part of a batch.
C16_WritesAreWholeAndLastWins ==
  [][ /\ WriterSettles =>
           LET batch == ret'.remembered
           IN  /\ \A h \in HashesOf(batch) :
                    /\ MapHas(jobCache', h)
                    /\ MapGet(jobCache', h).job = LastJobUnder(batch, h)
                    /\ MapGet(jobCache', h).expiresAt = now + JOB_CACHE_TTL_MS
               /\ \A h \in WriterHashes \ HashesOf(batch) :
                    MapGet(jobCache', h) = MapGet(jobCache, h)
               /\ MapKeys(jobCache') = MapKeys(jobCache) \cup HashesOf(batch)
      /\ ~WriterSettles =>
           \A h \in WriterHashes :
             MapHas(jobCache', h) => MapGet(jobCache', h) = MapGet(jobCache, h)
    ]_vars

\* A second writer has overwritten, while a third request was still
\* waiting for its fetch, what the first left under a hash they share, and
\* has left the first writer's other entry alone
C16_Witness ==
  /\ ret.op = "searchJobs"
  /\ ret.remembered # <<>>
  /\ stores = 2
  /\ reqs # EmptyBag
  /\ \E h \in HashesOf(ret.remembered) :
       /\ MapGet(jobCache, h).expiresAt = now + JOB_CACHE_TTL_MS
       /\ MapGet(jobCache, h).job = LastJobUnder(ret.remembered, h)
  /\ \E h \in WriterHashes \ HashesOf(ret.remembered) :
       /\ MapHas(jobCache, h)
       /\ MapGet(jobCache, h).expiresAt < now + JOB_CACHE_TTL_MS

\* The completed call's fetch succeeded with a payload that has a jobs array
FetchedJobs(r) ==
  /\ Searched(r)
  /\ r.fetched
  /\ r.outcome.kind = "http"
  /\ r.outcome.ok
  /\ Has(r.outcome.data, "jobs")

\* C17: when a fetch succeeds with a jobs array, every raw record is
\* normalized (a missing title becomes "Job Opening", a missing url the
\* empty string, the slug is made from the two) and the whole batch is
\* remembered: right after the fetch every returned job's hash suffix has
\* a job-cache entry that is not expired and expires 15 minutes after the
\* fetch.
C17_FetchedJobsAreNormalizedAndRemembered ==
  FetchedJobs(ret) =>
    LET raw      == ret.outcome.data.jobs
        returned == SearchResponseOf(ret).jobs
    IN  /\ Len(returned) = Len(raw)
        /\ ret.remembered = returned
        /\ \A i \in 1..Len(raw) :
             /\ returned[i].title =
                  (IF Has(raw[i], "title") THEN raw[i].title ELSE JobOpeningTitle)
             /\ returned[i].url = (IF Has(raw[i], "url") THEN raw[i].url ELSE "")
             /\ returned[i].slug = makeJobSlug(returned[i].title, returned[i].url)
             /\ LET hash == extractHashFromSlug(returned[i].slug)
                IN  /\ MapHas(jobCache, hash)
                    /\ MapGet(jobCache, hash).expiresAt = now + 15 * 60 * 1000
                    /\ MapGet(jobCache, hash).expiresAt >= now
                    /\ getJobFromCache(jobCache, hash, now).value # Undefined

C17_Witness ==
  /\ FetchedJobs(ret)
  /\ now > 0
  /\ \E i \in 1..Len(ret.outcome.data.jobs) :
       /\ ~Has(ret.outcome.data.jobs[i], "title")
       /\ ~Has(ret.outcome.data.jobs[i], "url")
       /\ SearchResponseOf(ret).jobs[i].title = JobOpeningTitle
       /\ SearchResponseOf(ret).jobs[i].slug =
            <<"j","o","b","-","o","p","e","n","i","n","g","-">>
              \o sliceTo(Sha256Hex(""), HashLen)
       /\ MapHas(jobCache, sliceTo(Sha256Hex(""), HashLen))

\* C18: in every reachable state each job-cache entry is stored under the
\* hash suffix of its job's slug, no two entries share a key, and each
\* entry expires at most 15 minutes after the current time.
C18_EntriesAreKeyedByHashAndExpireSoon ==
  /\ \A k \in 1..Len(jobCache) :
       /\ extractHashFromSlug(jobCache[k].job.slug) = jobCache[k].hash
       /\ jobCache[k].expiresAt <= now + 15 * 60 * 1000
  /\ \A k, l \in 1..Len(jobCache) : jobCache[k].hash = jobCache[l].hash => k = l

C18_Witness ==
  /\ Len(jobCache) = 3
  /\ \E k, l \in 1..Len(jobCache) :
       /\ jobCache[k].expiresAt = now + 15 * 60 * 1000
       /\ jobCache[l].expiresAt < now

\* C19: whenever findJobBySlug(slug, ...) returns a job, from the job cache
\* or from the search it made, the job's slug has the hash suffix of the
\* requested slug.  (The witness is a job returned under another slug and
\* title than the requested ones: two jobs share the hash suffix.)
C19_ReturnedJobHasTheRequestedHash ==
  (ret.op = "findJobBySlug" /\ ret.value # Undefined) =>
    extractHashFromSlug(ret.value.slug) = extractHashFromSlug(ret.slug)

C19_Witness ==
  /\ ret.op = "findJobBySlug"
  /\ ret.hit
  /\ ret.value # Undefined
  /\ ret.value.slug # ret.slug
  /\ ret.value.title # RawA.title
  /\ extractHashFromSlug(ret.value.slug) = extractHashFromSlug(ret.slug)

\* A searchJobs call fails in this step: its fetch settles as a failure, or
\* the API key is missing and the call is not served by the response cache
SearchFails ==
  /\ ret = NoCall
  /\ ret'.op = "searchJobs"
  /\ \/ FetchFailed(ret')
     \/ ~apiKey /\ ~ret'.fetched /\ ret'.error # Undefined

\* The response cache would not serve the query string now
NotServed(cache, queryString) ==
  \/ ~RespHas(cache, queryString)
  \/ now - RespGet(cache, queryString).at >= WindowMs

ReturnedJobs(r) ==
  /\ r.op = "searchJobs"
  /\ ~r.threw
  /\ Has(r.value, "jobs")

\* The completed searchJobs call was served by the response cache: it made
\* no fetch and its callback did not run
ServedFromCache(r) == ~r.fetched /\ r.error = Undefined

\* C21: whenever searchJobs returns a jobs response, fetched or served from
\* the response cache, every returned job's hash suffix has a job-cache
\* entry that is not expired.  A response served from the response cache
\* is at most 600 seconds old, and the entry of each of its jobs expires
\* no earlier than 15 minutes after the response was stored.
C21_ReturnedJobsAreStillCached ==
  ReturnedJobs(ret) =>
    /\ \A i \in 1..Len(ret.value.jobs) :
         LET hash == extractHashFromSlug(ret.value.jobs[i].slug)
         IN  /\ MapHas(jobCache, hash)
             /\ ~(MapGet(jobCache, hash).expiresAt < now)
             /\ getJobFromCache(jobCache, hash, now).value # Undefined
             /\ ServedFromCache(ret) =>
                  MapGet(jobCache, hash).expiresAt >=
                    RespGet(respCache, ret.queryString).at + 15 * 60 * 1000
    /\ ServedFromCache(ret) =>
         /\ RespHas(respCache, ret.queryString)
         /\ now - RespGet(respCache, ret.queryString).at <= 600 * 1000

\* Jobs served from the response cache at the very end of its window, one
\* of them with an entry that has 5 minutes left
C21_Witness ==
  /\ ReturnedJobs(ret)
  /\ ServedFromCache(ret)
  /\ ret.value.jobs # <<>>
  /\ now - RespGet(respCache, ret.queryString).at = 600 * 1000
  /\ \E i \in 1..Len(ret.value.jobs) :
       LET hash == extractHashFromSlug(ret.value.jobs[i].slug)
       IN  /\ MapHas(jobCache, hash)
           /\ MapGet(jobCache, hash).expiresAt = now + 5 * 60 * 1000

====
